---- MODULE Spec2Model ----
(***************************************************************************)
(* Model of docs/docs/versions/migrating_chains/conversation_chain.ipynb:  *)
(* the legacy ConversationChain with a ConversationBufferMemory, the LCEL  *)
(* chain wrapped in RunnableWithMessageHistory over one module-level       *)
(* history, and the LCEL chain wrapped over a session-keyed store.         *)
(*                                                                         *)
(* History objects live in a heap: an object is its index in `heap`, and   *)
(* heap[o] is the message list of object o. Creating an                    *)
(* InMemoryChatMessageHistory() appends an empty list to the heap.         *)
(***************************************************************************)
EXTENDS Integers, Sequences, FiniteSets, TLC

VARIABLES
    memory,     \* legacy cell: messages held by `memory` (ConversationBufferMemory)
    heap,       \* message lists of the InMemoryChatMessageHistory objects
    history,    \* LCEL cell 1: the module-level `history` object
    store,      \* LCEL cell 2: the dict `store`, session id -> history object
    lastLegacy, \* what the last call of the legacy chain returned
    lastCall,   \* what the last get_session_history call / wrapped_chain.invoke did
    log,        \* per history key: <<input, response, config>> of each invocation so far
    legacyLog,  \* <<input, response>> of each call of the legacy chain so far
    lookedUp,   \* the session ids get_session_history has been called with
    calls,      \* number of operations performed
    pc, tsid, absent, tret, tmsg  \* threads inside get_session_history

vars == <<memory, heap, history, store, lastLegacy, lastCall, log, legacyLog, lookedUp,
          calls, pc, tsid, absent, tret, tmsg>>

threadVars == <<pc, tsid, absent, tret, tmsg>>

-----------------------------------------------------------------------------
(* Bounds *)

MaxCalls == 3

MaxThreads == 2

Threads == 1..MaxThreads

(* Inputs of the notebook's invocations, session ids, model responses. *)
Inputs == {"how are you?", "Hello!"}

Responses == {"Arr matey", "Ahoy there"}

SessionIds == {"abc123", "def234"}

None == "None"

(* A config is None or {"configurable": {"session_id": s}}, held as s. *)
Configs == SessionIds \cup {None}

-----------------------------------------------------------------------------
(* Messages and the two history representations *)

HumanMessage(content) == [type |-> "human", content |-> content]

AIMessage(content) == [type |-> "ai", content |-> content]

(* The turn a finished invocation records: the input, then the response. *)
Turn(input, response) == <<HumanMessage(input), AIMessage(response)>>

(* ConversationBufferMemory renders its messages into the {history} slot  *)
(* of the template: one "Human: ..." or "AI: ..." line per message; the   *)
(* empty memory renders as '' (no line).                                  *)
get_buffer_string(messages) ==
    [i \in 1..Len(messages) |->
        [prefix  |-> IF messages[i].type = "human" THEN "Human" ELSE "AI",
         content |-> messages[i].content]]

RECURSIVE Flatten(_)
Flatten(turns) ==
    IF turns = <<>> THEN <<>>
    ELSE Turn(turns[1][1], turns[1][2]) \o Flatten(Tail(turns))

IsPrefix(s, t) == Len(s) <= Len(t) /\ SubSeq(t, 1, Len(s)) = s

-----------------------------------------------------------------------------
(* The notebook's own code *)

(* history = InMemoryChatMessageHistory(); def get_history(): return history *)
get_history_fresh == [heap |-> Append(heap, <<>>), store |-> store, ret |-> Len(heap) + 1]

get_history == [heap |-> heap, store |-> store, ret |-> history]

(* store[session_id] = InMemoryChatMessageHistory() *)
StoreAssign(hp, st, session_id) ==
    [heap  |-> Append(hp, <<>>),
     store |-> [k \in (DOMAIN st) \cup {session_id} |->
                   IF k = session_id THEN Len(hp) + 1 ELSE st[k]]]

(* Faulty variants of get_session_history: no membership test; one object *)
(* for all ids; a new object that is never stored.                        *)
get_session_history_always_new(session_id) ==
    LET a == StoreAssign(heap, store, session_id)
    IN  [heap |-> a.heap, store |-> a.store, ret |-> a.store[session_id]]

get_session_history_shared(session_id) ==
    LET st == [k \in (DOMAIN store) \cup {session_id} |-> history]
    IN  [heap |-> heap, store |-> st, ret |-> st[session_id]]

get_session_history_no_store(session_id) ==
    [heap |-> Append(heap, <<>>), store |-> store, ret |-> Len(heap) + 1]

(* def get_session_history(session_id):                                   *)
(*     if session_id not in store:                                        *)
(*         store[session_id] = InMemoryChatMessageHistory()               *)
(*     return store[session_id]                                           *)
get_session_history(session_id) ==
    LET a == IF session_id \notin DOMAIN store
             THEN StoreAssign(heap, store, session_id)
             ELSE [heap |-> heap, store |-> store]
    IN  [heap |-> a.heap, store |-> a.store, ret |-> a.store[session_id]]

(* The parameter list of each history callable, as written in its def.    *)
ParameterNames(f) ==
    IF f = "get_history" THEN <<>> ELSE <<"session_id">>

(* wrapped_chain = RunnableWithMessageHistory(chain, <callable>,          *)
(*                     history_messages_key="chat_history")               *)
wrapped_chain_swapped == [get_session_history  |-> "get_history",
                          history_messages_key |-> "chat_history"]

wrapped_chain_1 == [get_session_history  |-> "get_history",
                    history_messages_key |-> "chat_history"]

wrapped_chain_2 == [get_session_history  |-> "get_session_history",
                    history_messages_key |-> "chat_history"]

-----------------------------------------------------------------------------
(* The framework the notebook calls *)

(* ConversationChain.__call__: load the memory into {history}, run the    *)
(* model, save the input and the response into the memory.                *)
ConversationChainCall(input, response) ==
    [out    |-> [input |-> input, history |-> get_buffer_string(memory),
                 response |-> response],
     memory |-> memory \o Turn(input, response)]

(* RunnableWithMessageHistory.invoke: a callable with parameters is       *)
(* called with configurable["session_id"] (a ValueError when the config   *)
(* has none); a callable without parameters is called with no argument.   *)
(* The history returned fills the chat_history placeholder and then       *)
(* receives the input and the output of the run.                          *)
RunnableInvoke(w, config, input, response) ==
    LET f == w.get_session_history
        byId == ParameterNames(f) # <<>>
    IN  IF byId /\ config = None
        THEN [error |-> TRUE, heap |-> heap, store |-> store, arg |-> None,
              ret |-> 0, prior |-> <<>>, wrote |-> 0]
        ELSE LET r == IF byId THEN get_session_history(config) ELSE get_history
             IN  [error |-> FALSE,
                  heap  |-> [r.heap EXCEPT ![r.ret] = @ \o Turn(input, response)],
                  store |-> r.store,
                  arg   |-> IF byId THEN config ELSE None,
                  ret   |-> r.ret,
                  prior |-> r.heap[r.ret],
                  wrote |-> r.ret]

-----------------------------------------------------------------------------
(* State after the notebook's cells have defined everything *)

NoCall == [seq |-> 0, op |-> "none", chain |-> None, wrapper |-> None, config |-> None, session |-> None,
           arg |-> None, ret |-> 0, prior |-> <<>>, wrote |-> 0, error |-> FALSE,
           input |-> None, response |-> None, created |-> FALSE]

NoOut == [input |-> None, history |-> <<>>, response |-> None]

EmptyStore == [k \in {} |-> 0]

LogKeys == {"get_history"} \cup SessionIds

Init ==
    /\ memory = <<>>
    /\ heap = << <<>> >>
    /\ history = 1
    /\ store = EmptyStore
    /\ lastLegacy = NoOut
    /\ lastCall = NoCall
    /\ log = [k \in LogKeys |-> <<>>]
    /\ legacyLog = <<>>
    /\ lookedUp = {}
    /\ calls = 0
    /\ pc = [t \in Threads |-> "idle"]
    /\ tsid = [t \in Threads |-> None]
    /\ absent = [t \in Threads |-> FALSE]
    /\ tret = [t \in Threads |-> 0]
    /\ tmsg = [t \in Threads |-> None]

-----------------------------------------------------------------------------
(* Operations of the linear script *)

(* chain({"input": ...}) on the legacy ConversationChain *)
LegacyEffect(input, response) ==
    LET c == ConversationChainCall(input, response)
    IN  /\ memory' = c.memory
        /\ lastLegacy' = c.out
        /\ legacyLog' = Append(legacyLog, <<input, response>>)

LegacyCall(input, response) ==
    /\ calls < MaxCalls
    /\ LegacyEffect(input, response)
    /\ calls' = calls + 1
    /\ UNCHANGED <<heap, history, store, lastCall, log, lookedUp, threadVars>>

(* wrapped_chain.invoke({"input": ...}, config=...) on wrapper w *)
InvokeEffect(name, w, config, input, response) ==
    LET r == RunnableInvoke(w, config, input, response)
        key == IF r.arg = None THEN "get_history" ELSE r.arg
    IN  /\ heap' = r.heap
        /\ store' = r.store
        /\ lastCall' = [seq |-> calls + 1, op |-> "invoke", chain |-> name,
                        wrapper |-> w.get_session_history,
                        config |-> config, session |-> r.arg, arg |-> r.arg,
                        ret |-> r.ret, prior |-> r.prior, wrote |-> r.wrote,
                        error |-> r.error, input |-> input,
                        response |-> response,
                        created |-> Len(r.heap) > Len(heap)]
        /\ log' = IF r.error THEN log
                  ELSE [log EXCEPT ![key] = Append(@, <<input, response, config>>)]
        /\ lookedUp' = IF r.error \/ r.arg = None THEN lookedUp
                       ELSE lookedUp \cup {r.arg}

Invoke(name, w, config, input, response) ==
    /\ calls < MaxCalls
    /\ InvokeEffect(name, w, config, input, response)
    /\ calls' = calls + 1
    /\ UNCHANGED <<memory, history, lastLegacy, legacyLog, threadVars>>

InvokeShared(config, input, response) ==
    Invoke("wrapped_chain_1", wrapped_chain_1, config, input, response)

InvokeSession(config, input, response) ==
    Invoke("wrapped_chain_2", wrapped_chain_2, config, input, response)

(* A direct call get_session_history(session_id) *)
GetSessionHistory(session_id) ==
    /\ calls < MaxCalls
    /\ LET r == get_session_history(session_id)
       IN  /\ heap' = r.heap
           /\ store' = r.store
           /\ lastCall' = [NoCall EXCEPT !.op = "lookup", !.session = session_id,
                           !.arg = session_id, !.ret = r.ret,
                           !.chain = "direct", !.seq = calls + 1,
                           !.wrapper = "get_session_history",
                           !.prior = r.heap[r.ret],
                           !.created = Len(r.heap) > Len(heap)]
    /\ lookedUp' = lookedUp \cup {session_id}
    /\ calls' = calls + 1
    /\ UNCHANGED <<memory, history, lastLegacy, log, legacyLog, threadVars>>

Next ==
    \/ \E i \in Inputs, r \in Responses : LegacyCall(i, r)
    \/ \E c \in Configs, i \in Inputs, r \in Responses : InvokeShared(c, i, r)
    \/ \E c \in Configs, i \in Inputs, r \in Responses : InvokeSession(c, i, r)
    \/ \E s \in SessionIds : GetSessionHistory(s)

Spec == Init /\ [][Next]_vars

-----------------------------------------------------------------------------
(* The two call sequences of the notebook run side by side: the legacy    *)
(* chain and the first LCEL wrapper receive the same input, and the model *)
(* gives both the same response.                                          *)

SideBySide(config, input, response) ==
    /\ calls < MaxCalls
    /\ LegacyEffect(input, response)
    /\ InvokeEffect("wrapped_chain_1", wrapped_chain_1, config, input, response)
    /\ calls' = calls + 1
    /\ UNCHANGED <<history, threadVars>>

NextEquiv ==
    \E c \in Configs, i \in Inputs, r \in Responses : SideBySide(c, i, r)

SpecEquiv == Init /\ [][NextEquiv]_vars

-----------------------------------------------------------------------------
(* Threads calling get_session_history concurrently. Each line of the     *)
(* function body is one step: the membership test (`if session_id not in  *)
(* store`), the assignment, the return. The caller then appends one       *)
(* message through the history it was given.                              *)

seqVars == <<memory, history, lastLegacy, lastCall, log, legacyLog, calls>>

TCall(t, session_id) ==
    /\ pc[t] = "idle"
    /\ pc' = [pc EXCEPT ![t] = "test"]
    /\ tsid' = [tsid EXCEPT ![t] = session_id]
    /\ lookedUp' = lookedUp \cup {session_id}
    /\ UNCHANGED <<heap, store, absent, tret, tmsg, seqVars>>

TTest(t) ==
    /\ pc[t] = "test"
    /\ absent' = [absent EXCEPT ![t] = (tsid[t] \notin DOMAIN store)]
    /\ pc' = [pc EXCEPT ![t] = IF tsid[t] \notin DOMAIN store
                               THEN "assign" ELSE "return"]
    /\ UNCHANGED <<heap, store, tsid, tret, tmsg, lookedUp, seqVars>>

TAssign(t) ==
    /\ pc[t] = "assign"
    /\ LET a == StoreAssign(heap, store, tsid[t])
       IN  heap' = a.heap /\ store' = a.store
    /\ pc' = [pc EXCEPT ![t] = "return"]
    /\ UNCHANGED <<tsid, absent, tret, tmsg, lookedUp, seqVars>>

TReturn(t) ==
    /\ pc[t] = "return"
    /\ tret' = [tret EXCEPT ![t] = store[tsid[t]]]
    /\ pc' = [pc EXCEPT ![t] = "append"]
    /\ UNCHANGED <<heap, store, tsid, absent, tmsg, lookedUp, seqVars>>

TAppend(t, input) ==
    /\ pc[t] = "append"
    /\ heap' = [heap EXCEPT ![tret[t]] = Append(@, HumanMessage(input))]
    /\ tmsg' = [tmsg EXCEPT ![t] = input]
    /\ pc' = [pc EXCEPT ![t] = "done"]
    /\ UNCHANGED <<store, tsid, absent, tret, lookedUp, seqVars>>

NextConc ==
    \E t \in Threads :
        \/ \E s \in SessionIds : TCall(t, s)
        \/ TTest(t)
        \/ TAssign(t)
        \/ TReturn(t)
        \/ \E i \in Inputs : TAppend(t, i)

SpecConc == Init /\ [][NextConc]_vars

-----------------------------------------------------------------------------
(* Properties *)

Range(s) == {s[i] : i \in 1..Len(s)}

Front(s) == SubSeq(s, 1, Len(s) - 1)

(* The step performs a get_session_history call or a wrapper invocation. *)
IsCall == lastCall'.seq # lastCall.seq

(* The history key an invocation or lookup addressed. *)
KeyOf(call) == IF call.arg = None THEN "get_history" ELSE call.arg

(* C1: distinct session ids in store map to distinct history objects, and *)
(* the history of a session holds exactly the turns of the invocations    *)
(* made under that session id: nothing written under another id shows.    *)
C1_DistinctHistories ==
    /\ \A s1 \in DOMAIN store, s2 \in DOMAIN store :
           s1 # s2 => store[s1] # store[s2]
    /\ \A s \in DOMAIN store : heap[store[s]] = Flatten(log[s])

C1_Witness ==
    /\ DOMAIN store = SessionIds
    /\ \A s \in SessionIds : heap[store[s]] # <<>>
    /\ \E s1 \in SessionIds, s2 \in SessionIds :
           heap[store[s1]] # heap[store[s2]]

(* C2: store starts empty; its key set is always exactly the set of       *)
(* session ids looked up so far; the first lookup of a session id returns *)
(* a history object that did not exist before and holds no message.       *)
C2_LazyCreation ==
    /\ store = EmptyStore
    /\ [](DOMAIN store = lookedUp)
    /\ [][\A s \in SessionIds :
            (IsCall /\ lastCall'.arg = s /\ ~lastCall'.error /\ s \notin DOMAIN store)
            => /\ lastCall'.ret \notin 1..Len(heap)
               /\ lastCall'.created
               /\ lastCall'.prior = <<>>
               /\ lastCall'.op = "lookup" => heap'[lastCall'.ret] = <<>>]_vars

C2_Witness ==
    /\ lastCall.op = "lookup"
    /\ lastCall.created
    /\ DOMAIN store = SessionIds
    /\ heap[lastCall.ret] = <<>>

(* C3: run side by side on the same inputs and responses, the legacy      *)
(* memory and the LCEL history hold the same messages after every         *)
(* invocation, and the history the legacy chain was given is the          *)
(* rendering of the messages the LCEL chain was given.                    *)
C3_SameTurns ==
    /\ memory = heap[history]
    /\ calls > 0 =>
         /\ ~lastCall.error
         /\ lastLegacy.input = lastCall.input
         /\ lastLegacy.response = lastCall.response
         /\ lastLegacy.history = get_buffer_string(lastCall.prior)
         /\ Len(lastCall.prior) = 2 * (calls - 1)

C3_Witness ==
    /\ calls >= 2
    /\ lastLegacy.history # <<>>
    /\ lastCall.config # None
    /\ memory = heap[history]

(* C4: an invocation of the per-session wrapper with session_id s in its  *)
(* config calls the lookup with s, and the history returned, store[s], is *)
(* the one whose messages were supplied and to which the turn was added.  *)
C4_SessionFromConfig ==
    \A s \in SessionIds :
        (lastCall.chain = "wrapped_chain_2" /\ lastCall.config = s)
        => /\ ~lastCall.error
           /\ lastCall.arg = s
           /\ s \in DOMAIN store
           /\ lastCall.ret = store[s]
           /\ lastCall.wrote = store[s]
           /\ heap[store[s]] =
                  lastCall.prior \o Turn(lastCall.input, lastCall.response)

C4_Witness ==
    /\ lastCall.chain = "wrapped_chain_2"
    /\ lastCall.config \in SessionIds
    /\ lastCall.prior # <<>>
    /\ Cardinality(DOMAIN store) = 2

(* C5: the history callable of every wrapper the notebook invokes takes   *)
(* exactly one argument, named session_id.                                *)
C5_SingleSessionIdArgument ==
    lastCall.op = "invoke" =>
        ParameterNames(lastCall.wrapper) = <<"session_id">>

(* C6: every invocation of the first wrapper, whatever its config, is     *)
(* given the module-level history object, reads the turns of all earlier  *)
(* invocations of that wrapper from it and appends its own turn to it.    *)
C6_SharedHistory ==
    /\ heap[history] = Flatten(log["get_history"])
    /\ lastCall.chain = "wrapped_chain_1" =>
         /\ ~lastCall.error
         /\ lastCall.ret = history
         /\ lastCall.wrote = history
         /\ lastCall.prior = Flatten(Front(log["get_history"]))
         /\ heap[history] =
                lastCall.prior \o Turn(lastCall.input, lastCall.response)

C6_Witness ==
    /\ lastCall.chain = "wrapped_chain_1"
    /\ Len(log["get_history"]) >= 2
    /\ \E i \in 1..Len(log["get_history"]), j \in 1..Len(log["get_history"]) :
           log["get_history"][i][3] # log["get_history"][j][3]

(* C7: an invocation is given, in order, the inputs and responses of the  *)
(* earlier invocations on the same memory or history (none for the        *)
(* first), and a memory or a session's history only grows by appending.   *)
C7_Stateful ==
    /\ [](/\ (lastCall.op = "invoke" /\ ~lastCall.error) =>
               lastCall.prior = Flatten(Front(log[KeyOf(lastCall)]))
          /\ legacyLog # <<>> =>
               lastLegacy.history = get_buffer_string(Flatten(Front(legacyLog)))
          /\ memory = Flatten(legacyLog)
          /\ \A s \in DOMAIN store : heap[store[s]] = Flatten(log[s]))
    /\ [][/\ IsPrefix(memory, memory')
          /\ IsPrefix(heap[history], heap'[history'])
          /\ \A s \in DOMAIN store :
                 /\ s \in DOMAIN store'
                 /\ IsPrefix(heap[store[s]], heap'[store'[s]])]_vars

C7_Witness ==
    /\ lastCall.op = "invoke"
    /\ lastCall.arg \in SessionIds
    /\ Len(log[lastCall.arg]) >= 2
    /\ Len(lastCall.prior) >= 2

(* C8: an entry of store is never replaced or removed, and a lookup of a  *)
(* session id already in store returns the object stored under it.        *)
C8_StablePerSession ==
    /\ [](\A s \in SessionIds :
              (lastCall.arg = s /\ ~lastCall.error) =>
                  s \in DOMAIN store /\ lastCall.ret = store[s])
    /\ [][/\ \A s \in DOMAIN store : s \in DOMAIN store' /\ store'[s] = store[s]
          /\ \A s \in DOMAIN store :
                 (IsCall /\ lastCall'.arg = s /\ ~lastCall'.error) =>
                     lastCall'.ret = store[s] /\ ~lastCall'.created]_vars

C8_Witness ==
    /\ lastCall.op = "lookup"
    /\ ~lastCall.created
    /\ DOMAIN store = SessionIds
    /\ calls >= 3

(* C9: a lookup or invocation for session id s leaves store unchanged     *)
(* when s is present and adds only the key s when it is not; a lookup     *)
(* changes no message list; an invocation under s changes the message     *)
(* list of no other session.                                              *)
C9_Frame ==
    [][\A s \in SessionIds :
         (IsCall /\ lastCall'.arg = s /\ ~lastCall'.error) =>
            /\ s \in DOMAIN store => store' = store
            /\ s \notin DOMAIN store =>
                  /\ DOMAIN store' = (DOMAIN store) \cup {s}
                  /\ \A t \in DOMAIN store : store'[t] = store[t]
            /\ \A t \in (DOMAIN store) \ {s} : heap'[store'[t]] = heap[store[t]]
            /\ heap'[history'] = heap[history]
            /\ lastCall'.op = "lookup" =>
                  \A o \in 1..Len(heap) : heap'[o] = heap[o]]_vars

C9_Witness ==
    /\ lastCall.op = "invoke"
    /\ lastCall.arg \in SessionIds
    /\ \E t \in (DOMAIN store) \ {lastCall.arg} : heap[store[t]] # <<>>

(* C10: two threads that call get_session_history with the same session   *)
(* id get the same history object, it is the one in store, and a message  *)
(* appended through a returned history is in the stored history.          *)
C10_ConcurrentSameObject ==
    /\ \A t1 \in Threads, t2 \in Threads :
          (/\ pc[t1] \in {"append", "done"}
           /\ pc[t2] \in {"append", "done"}
           /\ tsid[t1] = tsid[t2])
          => /\ tret[t1] = tret[t2]
             /\ store[tsid[t1]] = tret[t1]
    /\ \A t \in Threads :
          pc[t] = "done" => HumanMessage(tmsg[t]) \in Range(heap[store[tsid[t]]])

====
